---- MODULE Spec2Model ----
(***************************************************************************)
(* Model of bot_scripts/assign-to-bounty-awaiting-for-approval.js:         *)
(* the issues.labeled / issues.unlabeled handlers, the project-board       *)
(* lookups, the card create/delete step and the Slack notification.        *)
(*                                                                         *)
(* One handler invocation is a process; its pc names the await it is       *)
(* suspended on.  Every action is the code that runs from the completion   *)
(* of that await up to the next await (or the return).  An optional value  *)
(* (null / undefined in the source) is a sequence of length 0 or 1.        *)
(***************************************************************************)
EXTENDS Integers, Sequences, FiniteSets, TLC

\* ---------------------------------------------------------------- bounds
NumHandlers == 2        \* handler invocations (events delivered) in one run
NumAltHandlers == 3     \* the same, in the runs of alternating events (SpecAlt)

Handlers == 1..(IF NumAltHandlers > NumHandlers THEN NumAltHandlers ELSE NumHandlers)

\* ------------------------------------------------------- the environment
LabelNames == {"bounty-awaiting-approval", "bounty"}

Issues == { [id |-> 1, url |-> "api/issues/1", html_url |-> "issues/1"],
            [id |-> 2, url |-> "api/issues/2", html_url |-> "issues/2"] }

\* the issues the delivered events are about
EventIssues == { i \in Issues : i.id = 1 }

\* the label sets an issue carries in the event payload
IssueLabelSets == { {}, {"bounty"} }

\* what getConfig may resolve to: null, a config without the
\* bounty-project-board section, a config with it
NullConfig == << >>
NoSectionConfig == << [board |-> << >>, room |-> "status-bounties"] >>
FullConfig ==
  << [board |-> << [name |-> "Status SOB Swarm",
                    watched |-> "bounty-awaiting-approval",
                    column |-> "bounty-awaiting-approval",
                    bounty |-> "bounty"] >>,
      room |-> "status-bounties"] >>
Configs == {NullConfig, NoSectionConfig, FullConfig}

\* what the remote project-board system holds: the open boards of the
\* organisation in list order, and the columns of each board in list order
Worlds ==
  { [boards  |-> << [id |-> 1, name |-> "Status SOB Swarm"],
                    [id |-> 2, name |-> "Status SOB Swarm"] >>,
     columns |-> << << [id |-> 1, name |-> "bounty-awaiting-approval"],
                       [id |-> 2, name |-> "bounty-awaiting-approval"] >>,
                    << [id |-> 3, name |-> "bounty-awaiting-approval"] >> >>],
    [boards  |-> << [id |-> 2, name |-> "Other board"] >>,
     columns |-> << << >>, << [id |-> 3, name |-> "bounty-awaiting-approval"] >> >>],
    [boards  |-> << [id |-> 1, name |-> "Status SOB Swarm"] >>,
     columns |-> << << [id |-> 2, name |-> "backlog"] >>, << >> >>] }

\* cards found on the board when the bot starts
InitialCardSets == { {},
                     {[id |-> 1, column_id |-> 1, content_id |-> 1]},
                     {[id |-> 1, column_id |-> 1, content_id |-> 2]} }

VARIABLES
  slackClient,   \* let slackClient = null            (option)
  env,           \* process.env: DRY_RUN, DRY_RUN_BOUNTY_APPROVAL
  world,         \* remote boards and columns
  cards,         \* remote cards
  pc,            \* per handler: the await it is suspended on
  ctx,           \* per handler: context (event name, isBot, payload)   (option)
  assign,        \* per handler: the assign argument
  config,        \* per handler: const config                           (option)
  project,       \* per handler: const project                          (option)
  column,        \* per handler: let column = null                      (option)
  ghcard,        \* per handler: const ghcard (unlabel branch)          (option)
  calls,         \* per handler: remote calls issued, in order
  logs,          \* per handler: robot.log entries, in order
  sent,          \* per handler: slackHelper.sendMessage calls, in order
  cardsBefore,   \* per handler (history): the remote cards when its event arrived
  failed,        \* per handler (history): the remote calls that were rejected
  overlapped     \* per handler (history): another handler was running when its event arrived

vars == << slackClient, env, world, cards, pc, ctx, assign, config, project, column,
           ghcard, calls, logs, sent, cardsBefore, failed, overlapped >>

remote == << world, cards >>

\* mutant: the last entry with the name is taken
FindByNameLast(list, name) ==
  IF \E i \in 1..Len(list) : list[i].name = name
  THEN << list[CHOOSE i \in 1..Len(list) :
                  /\ list[i].name = name
                  /\ \A j \in (i + 1)..Len(list) : list[j].name # name] >>
  ELSE << >>

\* ------------------------------------------------------------- helpers
\* Array.prototype.find on a name: the first element in list order, or undefined
FindByName(list, name) ==
  IF \E i \in 1..Len(list) : list[i].name = name
  THEN << list[CHOOSE i \in 1..Len(list) :
                  /\ list[i].name = name
                  /\ \A j \in 1..(i - 1) : list[j].name # name] >>
  ELSE << >>

\* mutant: the first open board is taken whatever its name
FindProjectAny(boards, projectBoardName) ==
  IF Len(boards) > 0 THEN << boards[1] >> ELSE << >>

\* ghprojectsPayload.data.find(p => p.name === projectBoardName)
FindProject(boards, projectBoardName) == FindByName(boards, projectBoardName)

\* mutant: the first column is taken whatever its name
FindColumnAny(columns, approvalColumnName) ==
  IF Len(columns) > 0 THEN << columns[1] >> ELSE << >>

\* ghcolumnsPayload.data.find(c => c.name === approvalColumnName)
FindColumn(columns, approvalColumnName) == FindByName(columns, approvalColumnName)

\* mutant: the card is created for another content id than the issue's
CardContentIdOther(payload) == payload.issue.id + 1

\* content_id: payload.issue.id
CardContentId(payload) == payload.issue.id

Call(op, id, content) == [op |-> op, id |-> id, content |-> content]

Ops(h) == { calls[h][i].op : i \in 1..Len(calls[h]) }
LogSet(h) == { logs[h][i] : i \in 1..Len(logs[h]) }

BoardOps == {"getOrgProjects", "getProjectColumns", "createProjectCard",
             "getProjectCards", "deleteProjectCard"}

\* the events the webhook framework may deliver
Contexts(name) ==
  { [name |-> name, isBot |-> b,
     payload |-> [label |-> [name |-> l],
                  issue |-> [id |-> i.id, url |-> i.url, html_url |-> i.html_url,
                             labels |-> ls]]] :
      b \in BOOLEAN, l \in LabelNames, i \in EventIssues, ls \in IssueLabelSets }

\* the remote system's content_url of a card: the url of the issue it references
ContentUrl(card) == (CHOOSE i \in Issues : i.id = card.content_id).url

\* the id the remote system gives the card created for handler h: unused so far
NewCardId(h) == h + 1

\* gitHubHelpers.getProjectCardForIssue: the cards of the column whose
\* content_url is the issue's url
ProjectCardsForIssue(columnId, issueUrl) ==
  { c \in cards : c.column_id = columnId /\ ContentUrl(c) = issueUrl }

\* ------------------------------------------------- the code's conditions
\* mutant: the handlers do not check context.isBot
IsBotIgnored(context) == FALSE

\* if (context.isBot) { return }
IsBot(context) == context.isBot

\* mutant: a config without the section falls back to the default board section
ProjectBoardConfigDefaulted(cfg) == IF cfg # << >> THEN FullConfig[1].board ELSE << >>

\* const projectBoardConfig = config ? config['bounty-project-board'] : null
ProjectBoardConfig(cfg) == IF cfg # << >> THEN cfg[1].board ELSE << >>

\* mutant: the label is never compared with the watched label
LabelMismatchNever(payload, pbc) == FALSE

\* payload.label.name !== watchedLabelName
LabelMismatch(payload, pbc) == payload.label.name # pbc.watched

\* mutant: the bounty label test is inverted
IsOfficialBountyInverted(payload, pbc) == ~(\E l \in payload.issue.labels : l = pbc.bounty)

\* !!payload.issue.labels.find(l => l.name === bountyLabelName)
IsOfficialBounty(payload, pbc) == \E l \in payload.issue.labels : l = pbc.bounty

\* mutant: the DRY_RUN flag is not consulted
DryRunIgnored == FALSE

\* process.env.DRY_RUN
DryRun == env.DRY_RUN

\* the message composed for Slack
Message(asg, payload, pbc) ==
  IF asg
  THEN [kind |-> "Assigned issue to", column |-> pbc.column, board |-> pbc.name,
        url |-> payload.issue.html_url]
  ELSE IF IsOfficialBounty(payload, pbc)
       THEN [kind |-> "has been approved as an official bounty!", column |-> "",
             board |-> "", url |-> payload.issue.html_url]
       ELSE [kind |-> "Unassigned issue from", column |-> pbc.column,
             board |-> pbc.name, url |-> payload.issue.html_url]

\* mutant: the DRY_RUN flag suppresses the message as well
ShouldSendUnlessDryRun(message) == ~env.DRY_RUN_BOUNTY_APPROVAL /\ ~env.DRY_RUN

\* mutant: the DRY_RUN_BOUNTY_APPROVAL flag is not consulted
ShouldSendAlways(message) == TRUE

\* if (message && !process.env.DRY_RUN_BOUNTY_APPROVAL)
\* (every branch of lines 150-158 assigns a non-empty message)
ShouldSend(message) == ~env.DRY_RUN_BOUNTY_APPROVAL

\* slackHelper.sendMessage(robot, slackClient, room, message)
SendMessage(h, room, message) ==
  sent' = [sent EXCEPT ![h] = Append(@, [client |-> slackClient, room |-> room,
                                         message |-> message])]

\* lines 148-163: compose the message, send it, return
Notify(h) ==
  LET payload == ctx[h][1].payload
      pbc     == ProjectBoardConfig(config[h])[1]
      message == Message(assign[h], payload, pbc)
  IN /\ IF ShouldSend(message)
        THEN SendMessage(h, config[h][1].room, message)
        ELSE UNCHANGED sent
     /\ pc' = [pc EXCEPT ![h] = "done"]

\* ----------------------------------------------------------------- Init
Init ==
  /\ slackClient = << >>
  /\ env \in [DRY_RUN : BOOLEAN, DRY_RUN_BOUNTY_APPROVAL : BOOLEAN]
  /\ world \in Worlds
  /\ cards \in InitialCardSets
  /\ pc = [h \in Handlers |-> "idle"]
  /\ ctx = [h \in Handlers |-> << >>]
  /\ assign = [h \in Handlers |-> FALSE]
  /\ config = [h \in Handlers |-> << >>]
  /\ project = [h \in Handlers |-> << >>]
  /\ column = [h \in Handlers |-> << >>]
  /\ ghcard = [h \in Handlers |-> << >>]
  /\ calls = [h \in Handlers |-> << >>]
  /\ logs = [h \in Handlers |-> << >>]
  /\ sent = [h \in Handlers |-> << >>]
  /\ cardsBefore = [h \in Handlers |-> {}]
  /\ failed = [h \in Handlers |-> {}]
  /\ overlapped = [h \in Handlers |-> FALSE]

\* mutant: on connection, messages handed over without a client are sent again
SlackConnectedFlush ==
  /\ slackClient = << >>
  /\ slackClient' = << "slack" >>
  /\ sent' = [h \in Handlers |->
                IF sent[h] # << >> /\ sent[h][1].client = << >>
                THEN Append(sent[h], [sent[h][1] EXCEPT !.client = << "slack" >>])
                ELSE sent[h]]
  /\ UNCHANGED << overlapped, failed, cardsBefore, env, remote, pc, ctx, assign, config,
                  project, column, ghcard, calls, logs >>

\* -------------------------------------------------------------- actions
\* Slack(robot, (slack) => { slackClient = slack })
SlackConnected ==
  /\ slackClient = << >>
  /\ slackClient' = << "slack" >>
  /\ UNCHANGED << overlapped, failed, cardsBefore, env, remote, pc, ctx, assign, config, project, column, ghcard,
                  calls, logs, sent >>

\* no handler is suspended on an await
Quiescent == \A h \in Handlers : pc[h] \in {"idle", "done"}

\* the next invocation takes the first unused handler slot
NextSlot(h) == pc[h] = "idle" /\ \A g \in Handlers : g < h => pc[g] # "idle"

\* the body of a robot.on callback up to its first await
Handle(h, context, asg) ==
  /\ ctx' = [ctx EXCEPT ![h] = << context >>]
  /\ cardsBefore' = [cardsBefore EXCEPT ![h] = cards]
  /\ overlapped' = [overlapped EXCEPT ![h] = ~Quiescent]
  /\ IF IsBot(context)
     THEN /\ pc' = [pc EXCEPT ![h] = "done"]
          /\ UNCHANGED << assign, calls >>
     ELSE /\ assign' = [assign EXCEPT ![h] = asg]
          /\ calls' = [calls EXCEPT ![h] = Append(@, Call("getConfig", 0, 0))]
          /\ pc' = [pc EXCEPT ![h] = "getConfig"]
  /\ UNCHANGED << failed, slackClient, env, remote, config, project, column, ghcard,
                  logs, sent >>

\* robot.on('issues.labeled', ...)
OnIssuesLabeled(h, context) == Handle(h, context, TRUE)

IssuesLabeled(h) ==
  /\ h <= NumHandlers
  /\ NextSlot(h)
  /\ \E context \in Contexts("issues.labeled") : OnIssuesLabeled(h, context)

\* mutant: the unlabeled callback passes assign = true
OnIssuesUnlabeledAssigns(h, context) == Handle(h, context, TRUE)

\* robot.on('issues.unlabeled', ...)
OnIssuesUnlabeled(h, context) == Handle(h, context, FALSE)

IssuesUnlabeled(h) ==
  /\ h <= NumHandlers
  /\ NextSlot(h)
  /\ \E context \in Contexts("issues.unlabeled") : OnIssuesUnlabeled(h, context)

\* the events GitHub delivers for one label on one issue alternate: the k-th
\* is label-added for odd k and label-removed for even k
WatchedContexts(name) ==
  { c \in Contexts(name) : c.payload.label.name = FullConfig[1].board[1].watched }

LabelAdded(h) ==
  /\ h <= NumAltHandlers /\ h % 2 = 1
  /\ NextSlot(h)
  /\ \E context \in WatchedContexts("issues.labeled") : OnIssuesLabeled(h, context)

LabelRemoved(h) ==
  /\ h <= NumAltHandlers /\ h % 2 = 0
  /\ NextSlot(h)
  /\ \E context \in WatchedContexts("issues.unlabeled") : OnIssuesUnlabeled(h, context)

\* await getConfig(...) rejects: the handler's promise rejects
GetConfigRejected(h) ==
  /\ pc[h] = "getConfig"
  /\ pc' = [pc EXCEPT ![h] = "done"]
  /\ failed' = [failed EXCEPT ![h] = @ \cup {"getConfig"}]
  /\ UNCHANGED overlapped
  /\ UNCHANGED << cardsBefore, slackClient, env, remote, ctx, assign, config, project, column,
                  ghcard, calls, logs, sent >>

\* await getConfig(...) resolves; lines 50-80
GetConfigResolved(h) ==
  /\ pc[h] = "getConfig"
  /\ \E cfg \in Configs :
       LET payload == ctx[h][1].payload
           pbcOpt  == ProjectBoardConfig(cfg)
       IN /\ config' = [config EXCEPT ![h] = cfg]
          /\ IF pbcOpt = << >>
             THEN /\ pc' = [pc EXCEPT ![h] = "done"]
                  /\ UNCHANGED << calls, logs >>
             ELSE IF LabelMismatch(payload, pbcOpt[1])
             THEN /\ logs' = [logs EXCEPT ![h] = Append(@, "debug: label doesn't match watched label")]
                  /\ pc' = [pc EXCEPT ![h] = "done"]
                  /\ UNCHANGED calls
             ELSE /\ logs' = [logs EXCEPT ![h] =
                        Append(@, IF assign[h] THEN "Handling labeling" ELSE "Handling unlabeling")]
                  /\ calls' = [calls EXCEPT ![h] = Append(@, Call("getOrgProjects", 0, 0))]
                  /\ pc' = [pc EXCEPT ![h] = "getOrgProjects"]
  /\ UNCHANGED << overlapped, failed, cardsBefore, slackClient, env, remote, ctx, assign, project, column, ghcard, sent >>

\* mutant: the outer catch retries the call instead of returning
GetOrgProjectsRetried(h) ==
  /\ pc[h] = "getOrgProjects"
  /\ logs' = [logs EXCEPT ![h] = Append(@, "error: Couldn't fetch the github projects")]
  /\ calls' = [calls EXCEPT ![h] = Append(@, Call("getOrgProjects", 0, 0))]
  /\ failed' = [failed EXCEPT ![h] = @ \cup {"getOrgProjects"}]
  /\ UNCHANGED overlapped
  /\ UNCHANGED << cardsBefore, slackClient, env, remote, pc, ctx, assign, config,
                  project, column, ghcard, sent >>

\* await github.projects.getOrgProjects rejects; lines 106-109
GetOrgProjectsRejected(h) ==
  /\ pc[h] = "getOrgProjects"
  /\ logs' = [logs EXCEPT ![h] = Append(@, "error: Couldn't fetch the github projects")]
  /\ pc' = [pc EXCEPT ![h] = "done"]
  /\ failed' = [failed EXCEPT ![h] = @ \cup {"getOrgProjects"}]
  /\ UNCHANGED overlapped
  /\ UNCHANGED << cardsBefore, slackClient, env, remote, ctx, assign, config, project, column,
                  ghcard, calls, sent >>

\* await github.projects.getOrgProjects resolves; lines 83-93
GetOrgProjectsResolved(h) ==
  /\ pc[h] = "getOrgProjects"
  /\ LET pbc   == ProjectBoardConfig(config[h])[1]
         found == FindProject(world.boards, pbc.name)
     IN IF found = << >>
        THEN /\ logs' = [logs EXCEPT ![h] = Append(@, "error: Couldn't find project")]
             /\ pc' = [pc EXCEPT ![h] = "done"]
             /\ UNCHANGED << project, calls >>
        ELSE /\ project' = [project EXCEPT ![h] = found]
             /\ logs' = [logs EXCEPT ![h] = Append(@, "debug: Fetched project")]
             /\ calls' = [calls EXCEPT ![h] =
                            Append(@, Call("getProjectColumns", found[1].id, 0))]
             /\ pc' = [pc EXCEPT ![h] = "getProjectColumns"]
  /\ UNCHANGED << overlapped, failed, cardsBefore, slackClient, env, remote, ctx, assign, config, column, ghcard, sent >>

\* await github.projects.getProjectColumns rejects; lines 102-105
GetProjectColumnsRejected(h) ==
  /\ pc[h] = "getProjectColumns"
  /\ logs' = [logs EXCEPT ![h] = Append(@, "error: Couldn't fetch the github columns")]
  /\ pc' = [pc EXCEPT ![h] = "done"]
  /\ failed' = [failed EXCEPT ![h] = @ \cup {"getProjectColumns"}]
  /\ UNCHANGED overlapped
  /\ UNCHANGED << cardsBefore, slackClient, env, remote, ctx, assign, config, project, column,
                  ghcard, calls, sent >>

\* await github.projects.getProjectColumns resolves; lines 95-137
GetProjectColumnsResolved(h) ==
  /\ pc[h] = "getProjectColumns"
  /\ LET pbc     == ProjectBoardConfig(config[h])[1]
         payload == ctx[h][1].payload
         found   == FindColumn(world.columns[project[h][1].id], pbc.column)
     IN IF found = << >>
        THEN /\ logs' = [logs EXCEPT ![h] = Append(@, "error: Couldn't find column")]
             /\ pc' = [pc EXCEPT ![h] = "done"]
             /\ UNCHANGED << column, calls, sent >>
        ELSE /\ column' = [column EXCEPT ![h] = found]
             /\ IF DryRun
                THEN /\ logs' = [logs EXCEPT ![h] = @ \o
                          << "debug: Fetched column",
                             IF assign[h] THEN "info: Would have created card for issue"
                                          ELSE "info: Would have deleted card for issue" >>]
                     /\ UNCHANGED calls
                     /\ Notify(h)
                ELSE /\ logs' = [logs EXCEPT ![h] = Append(@, "debug: Fetched column")]
                     /\ UNCHANGED sent
                     /\ IF assign[h]
                        THEN /\ calls' = [calls EXCEPT ![h] = Append(@,
                                   Call("createProjectCard", found[1].id, CardContentId(payload)))]
                             /\ pc' = [pc EXCEPT ![h] = "createProjectCard"]
                        ELSE /\ calls' = [calls EXCEPT ![h] = Append(@,
                                   Call("getProjectCards", found[1].id, 0))]
                             /\ pc' = [pc EXCEPT ![h] = "getProjectCardForIssue"]
  /\ UNCHANGED << overlapped, failed, cardsBefore, slackClient, env, remote, ctx, assign, config, project, ghcard >>

\* await github.projects.createProjectCard resolves; lines 129-131, 148-163
\* (the remote system takes a call's effect at the moment the await completes;
\* it accepts a second card for an issue that already has one)
CreateProjectCardResolved(h) ==
  /\ pc[h] = "createProjectCard"
  /\ cards' = cards \cup { [id |-> NewCardId(h), column_id |-> column[h][1].id,
                            content_id |-> CardContentId(ctx[h][1].payload)] }
  /\ logs' = [logs EXCEPT ![h] = Append(@, "Created card")]
  /\ Notify(h)
  /\ UNCHANGED << overlapped, failed, cardsBefore, slackClient, env, world, ctx, assign, config, project, column,
                  ghcard, calls >>

\* mutant: a rejected create call is issued once more
CreateProjectCardRejectedRetries(h) ==
  /\ pc[h] = "createProjectCard"
  /\ logs' = [logs EXCEPT ![h] = Append(@, "error: Couldn't create project card for the issue")]
  /\ failed' = [failed EXCEPT ![h] = @ \cup {"createProjectCard"}]
  /\ IF Len(calls[h]) < 5
     THEN /\ calls' = [calls EXCEPT ![h] = Append(@, calls[h][Len(calls[h])])]
          /\ UNCHANGED << pc, sent >>
     ELSE /\ Notify(h)
          /\ UNCHANGED calls
  /\ UNCHANGED << overlapped, cardsBefore, slackClient, env, remote, ctx, assign, config,
                  project, column, ghcard >>

\* mutant: the catch block of the create call returns
CreateProjectCardRejectedReturns(h) ==
  /\ pc[h] = "createProjectCard"
  /\ logs' = [logs EXCEPT ![h] = Append(@, "error: Couldn't create project card for the issue")]
  /\ failed' = [failed EXCEPT ![h] = @ \cup {"createProjectCard"}]
  /\ pc' = [pc EXCEPT ![h] = "done"]
  /\ UNCHANGED << overlapped, cardsBefore, slackClient, env, remote, ctx, assign, config,
                  project, column, ghcard, calls, sent >>

\* await github.projects.createProjectCard rejects; lines 132-134, 148-163
CreateProjectCardRejected(h) ==
  /\ pc[h] = "createProjectCard"
  /\ logs' = [logs EXCEPT ![h] = Append(@, "error: Couldn't create project card for the issue")]
  /\ Notify(h)
  /\ failed' = [failed EXCEPT ![h] = @ \cup {"createProjectCard"}]
  /\ UNCHANGED overlapped
  /\ UNCHANGED << cardsBefore, slackClient, env, remote, ctx, assign, config, project, column,
                  ghcard, calls >>

\* mutant: a missing card is reported as an error
GetProjectCardForIssueStrict(h) ==
  /\ pc[h] = "getProjectCardForIssue"
  /\ LET found == ProjectCardsForIssue(column[h][1].id, ctx[h][1].payload.issue.url)
     IN IF found = {}
        THEN /\ logs' = [logs EXCEPT ![h] = Append(@, "error: Couldn't delete project card for the issue")]
             /\ Notify(h)
             /\ UNCHANGED << ghcard, calls >>
        ELSE \E c \in found :
               /\ ghcard' = [ghcard EXCEPT ![h] = << c >>]
               /\ calls' = [calls EXCEPT ![h] = Append(@, Call("deleteProjectCard", c.id, 0))]
               /\ pc' = [pc EXCEPT ![h] = "deleteProjectCard"]
               /\ UNCHANGED << sent, logs >>
  /\ UNCHANGED << overlapped, failed, cardsBefore, slackClient, env, remote, ctx, assign, config, project, column >>

\* await gitHubHelpers.getProjectCardForIssue resolves; lines 137-139, 148-163
GetProjectCardForIssueResolved(h) ==
  /\ pc[h] = "getProjectCardForIssue"
  /\ LET found == ProjectCardsForIssue(column[h][1].id, ctx[h][1].payload.issue.url)
     IN IF found = {}
        THEN /\ Notify(h)
             /\ UNCHANGED << ghcard, calls >>
        ELSE \E c \in found :
               /\ ghcard' = [ghcard EXCEPT ![h] = << c >>]
               /\ calls' = [calls EXCEPT ![h] = Append(@, Call("deleteProjectCard", c.id, 0))]
               /\ pc' = [pc EXCEPT ![h] = "deleteProjectCard"]
               /\ UNCHANGED sent
  /\ UNCHANGED << overlapped, failed, cardsBefore, slackClient, env, remote, ctx, assign, config, project, column, logs >>

\* await gitHubHelpers.getProjectCardForIssue rejects; lines 142-144, 148-163
GetProjectCardForIssueRejected(h) ==
  /\ pc[h] = "getProjectCardForIssue"
  /\ logs' = [logs EXCEPT ![h] = Append(@, "error: Couldn't delete project card for the issue")]
  /\ Notify(h)
  /\ failed' = [failed EXCEPT ![h] = @ \cup {"getProjectCards"}]
  /\ UNCHANGED overlapped
  /\ UNCHANGED << cardsBefore, slackClient, env, remote, ctx, assign, config, project, column,
                  ghcard, calls >>

\* await github.projects.deleteProjectCard resolves; lines 140, 148-163
DeleteProjectCardResolved(h) ==
  /\ pc[h] = "deleteProjectCard"
  /\ ghcard[h][1] \in cards
  /\ cards' = cards \ { ghcard[h][1] }
  /\ logs' = [logs EXCEPT ![h] = Append(@, "Deleted card")]
  /\ Notify(h)
  /\ UNCHANGED << overlapped, failed, cardsBefore, slackClient, env, world, ctx, assign, config, project, column,
                  ghcard, calls >>

\* await github.projects.deleteProjectCard rejects; lines 142-144, 148-163
DeleteProjectCardRejected(h) ==
  /\ pc[h] = "deleteProjectCard"
  /\ logs' = [logs EXCEPT ![h] = Append(@, "error: Couldn't delete project card for the issue")]
  /\ Notify(h)
  /\ failed' = [failed EXCEPT ![h] = @ \cup {"deleteProjectCard"}]
  /\ UNCHANGED overlapped
  /\ UNCHANGED << cardsBefore, slackClient, env, remote, ctx, assign, config, project, column,
                  ghcard, calls >>

\* ------------------------------------------------------- specifications
Step(h) ==
  \/ GetConfigRejected(h)
  \/ GetConfigResolved(h)
  \/ GetOrgProjectsRejected(h)
  \/ GetOrgProjectsResolved(h)
  \/ GetProjectColumnsRejected(h)
  \/ GetProjectColumnsResolved(h)
  \/ CreateProjectCardResolved(h)
  \/ CreateProjectCardRejected(h)
  \/ GetProjectCardForIssueResolved(h)
  \/ GetProjectCardForIssueRejected(h)
  \/ DeleteProjectCardResolved(h)
  \/ DeleteProjectCardRejected(h)

\* events are dispatched with no mutual exclusion between handlers
Next ==
  \/ SlackConnected
  \/ \E h \in Handlers : IssuesLabeled(h)
  \/ \E h \in Handlers : IssuesUnlabeled(h)
  \/ \E h \in Handlers : Step(h)

Spec == Init /\ [][Next]_vars

\* each event is handled to completion before the next one is delivered
IssuesLabeledSeq(h) == Quiescent /\ IssuesLabeled(h)

IssuesUnlabeledSeq(h) == Quiescent /\ IssuesUnlabeled(h)

NextSeq ==
  \/ SlackConnected
  \/ \E h \in Handlers : IssuesLabeledSeq(h)
  \/ \E h \in Handlers : IssuesUnlabeledSeq(h)
  \/ \E h \in Handlers : Step(h)

SpecSeq == Init /\ [][NextSeq]_vars

\* alternating label-added / label-removed events for the watched label on
\* one issue, starting from a board with no card for that issue
InitAlt ==
  /\ Init
  /\ \A c \in cards : \A i \in EventIssues : c.content_id # i.id

\* ... dispatched with no mutual exclusion between their handlers
NextAlt ==
  \/ SlackConnected
  \/ \E h \in Handlers : LabelAdded(h)
  \/ \E h \in Handlers : LabelRemoved(h)
  \/ \E h \in Handlers : Step(h)

SpecAlt == InitAlt /\ [][NextAlt]_vars

\* ... each handled to completion before the next one is delivered
LabelAddedSeq(h) == Quiescent /\ LabelAdded(h)

LabelRemovedSeq(h) == Quiescent /\ LabelRemoved(h)

NextAltSeq ==
  \/ SlackConnected
  \/ \E h \in Handlers : LabelAddedSeq(h)
  \/ \E h \in Handlers : LabelRemovedSeq(h)
  \/ \E h \in Handlers : Step(h)

SpecAltSeq == InitAlt /\ [][NextAltSeq]_vars

\* ------------------------------------------------------------ properties
Labeled(h) == ctx[h][1].name = "issues.labeled"
HasBoardSection(h) == config[h] # << >> /\ config[h][1].board # << >>
Pbc(h) == config[h][1].board[1]
CardOps == {"createProjectCard", "getProjectCards", "deleteProjectCard"}
OpCount(h, op) == Cardinality({ i \in 1..Len(calls[h]) : calls[h][i].op = op })

\* C1: an event whose label name differs from the configured watched label
\* name issues no project-board call and sends no chat notification.
C1_MismatchedLabelIgnored ==
  \A h \in Handlers :
    ( /\ ctx[h] # << >>
      /\ HasBoardSection(h)
      /\ ctx[h][1].payload.label.name # Pbc(h).watched )
    => /\ Ops(h) \cap BoardOps = {}
       /\ sent[h] = << >>

C1_Witness ==
  \E h \in Handlers :
    /\ pc[h] = "done"
    /\ ~ctx[h][1].isBot
    /\ HasBoardSection(h)
    /\ ctx[h][1].payload.label.name # Pbc(h).watched
    /\ "debug: label doesn't match watched label" \in LogSet(h)

\* C2: an event with isBot true, labeled or unlabeled, matching label or not,
\* makes no remote call and sends no notification.
C2_BotEventsIgnored ==
  \A h \in Handlers :
    (ctx[h] # << >> /\ ctx[h][1].isBot)
    => /\ calls[h] = << >>
       /\ sent[h] = << >>
       /\ pc[h] = "done"

C2_Witness ==
  \E g, h \in Handlers :
    /\ pc[g] = "done" /\ ctx[g][1].isBot /\ Labeled(g)
    /\ ctx[g][1].payload.label.name = FullConfig[1].board[1].watched
    /\ pc[h] = "done" /\ ctx[h][1].isBot /\ ~Labeled(h)
    /\ ctx[h][1].payload.label.name # FullConfig[1].board[1].watched

\* C3: when the loaded configuration is null or has no bounty-project-board
\* section the handler returns at once: no project-board call, no card
\* created or deleted, no notification.
C3_NoBoardConfigNoOp ==
  \A h \in Handlers :
    ( /\ ctx[h] # << >>
      /\ pc[h] # "getConfig"
      /\ ~HasBoardSection(h) )
    => /\ pc[h] = "done"
       /\ Ops(h) \cap BoardOps = {}
       /\ logs[h] = << >>
       /\ sent[h] = << >>

C3_Witness ==
  \E g, h \in Handlers :
    /\ pc[g] = "done" /\ ~ctx[g][1].isBot /\ config[g] = NoSectionConfig
    /\ ctx[g][1].payload.label.name = FullConfig[1].board[1].watched
    /\ pc[h] = "done" /\ ~ctx[h][1].isBot /\ config[h] = NullConfig
    /\ Ops(h) = {"getConfig"}

\* C4: when no open board of the owner has the configured board name, no
\* list-columns, create-card, list-cards or delete-card call is made and no
\* notification is sent.
BoardNamed(name) == \E i \in 1..Len(world.boards) : world.boards[i].name = name

C4_BoardNotFoundAborts ==
  \A h \in Handlers :
    ( /\ ctx[h] # << >>
      /\ HasBoardSection(h)
      /\ ~BoardNamed(Pbc(h).name) )
    => /\ Ops(h) \cap ({"getProjectColumns"} \cup CardOps) = {}
       /\ sent[h] = << >>
       /\ pc[h] \in {"getOrgProjects", "done"}

C4_Witness ==
  \E h \in Handlers :
    /\ pc[h] = "done"
    /\ HasBoardSection(h)
    /\ ~BoardNamed(Pbc(h).name)
    /\ "error: Couldn't find project" \in LogSet(h)

\* C5: when the resolved board has no column with the configured approval
\* column name, no create-card, list-cards or delete-card call is made and no
\* notification is sent.
ColumnNamed(boardId, name) ==
  \E i \in 1..Len(world.columns[boardId]) : world.columns[boardId][i].name = name

C5_ColumnNotFoundAborts ==
  \A h \in Handlers :
    ( /\ project[h] # << >>
      /\ ~ColumnNamed(project[h][1].id, Pbc(h).column) )
    => /\ Ops(h) \cap CardOps = {}
       /\ sent[h] = << >>
       /\ column[h] = << >>
       /\ pc[h] \in {"getProjectColumns", "done"}

C5_Witness ==
  \E h \in Handlers :
    /\ pc[h] = "done"
    /\ project[h] # << >>
    /\ ~ColumnNamed(project[h][1].id, Pbc(h).column)
    /\ "error: Couldn't find column" \in LogSet(h)

\* C6: when the list-open-boards call or the list-columns call fails, the
\* handling ends there: the failed call is not repeated, no card call is
\* made and no notification is sent.
FetchFailed(h) == failed[h] \cap {"getOrgProjects", "getProjectColumns"} # {}

C6_FetchFailureAborts ==
  \A h \in Handlers :
    FetchFailed(h)
    => /\ pc[h] = "done"
       /\ OpCount(h, "getOrgProjects") = 1
       /\ OpCount(h, "getProjectColumns") <= 1
       /\ Ops(h) \cap CardOps = {}
       /\ sent[h] = << >>

C6_Witness ==
  \E g, h \in Handlers :
    /\ "getOrgProjects" \in failed[g]
    /\ "getProjectColumns" \in failed[h]
    /\ OpCount(h, "getProjectColumns") = 1

\* C7: with DRY_RUN set no create-card or delete-card call is ever issued,
\* every handler that resolved its column has logged the action it would
\* have taken, and no step changes the cards on the board.
C7_DryRunState ==
  env.DRY_RUN =>
    \A h \in Handlers :
      /\ Ops(h) \cap {"createProjectCard", "deleteProjectCard"} = {}
      /\ column[h] # << >> =>
           IF Labeled(h)
           THEN "info: Would have created card for issue" \in LogSet(h)
           ELSE "info: Would have deleted card for issue" \in LogSet(h)

C7_DryRunLeavesBoard ==
  [](C7_DryRunState) /\ [][env.DRY_RUN => cards' = cards]_vars

C7_Witness ==
  /\ env.DRY_RUN
  /\ \E g, h \in Handlers :
       /\ pc[g] = "done" /\ column[g] # << >> /\ Labeled(g)
       /\ pc[h] = "done" /\ column[h] # << >> /\ ~Labeled(h)
       /\ ProjectCardsForIssue(column[h][1].id, ctx[h][1].payload.issue.url) # {}

\* the cards of a column that reference an issue
CardsOf(cs, columnId, issueId) ==
  { c \in cs : c.column_id = columnId /\ c.content_id = issueId }

\* handler g handled a label-added event and handler h, the next one, a
\* label-removed event for the same issue: both with the watched label, both
\* to completion with no rejected remote call, not in dry-run
AssignThenUnassign(g, h) ==
  /\ h = g + 1
  /\ pc[g] = "done" /\ pc[h] = "done"
  /\ Labeled(g) /\ ~Labeled(h)
  /\ column[g] # << >> /\ column[h] = column[g]
  /\ ctx[g][1].payload.issue.id = ctx[h][1].payload.issue.id
  /\ failed[g] = {} /\ failed[h] = {}
  /\ ~env.DRY_RUN
  /\ \A k \in Handlers : k > h => pc[k] = "idle"

CardCreatedBy(g) ==
  [id |-> NewCardId(g), column_id |-> column[g][1].id,
   content_id |-> ctx[g][1].payload.issue.id]

UnassignRemovedAssignedCard(g, h) ==
  /\ ghcard[h] = << CardCreatedBy(g) >>
  /\ OpCount(h, "deleteProjectCard") = 1
  /\ CardsOf(cards, column[h][1].id, ctx[h][1].payload.issue.id) = {}

\* C8 as stated: after label-added then label-removed for one issue, each
\* handled to completion, the unassign handler has found and deleted the card
\* the assign handler created and no card for the issue is left in the column.
C8_AsStated ==
  \A g, h \in Handlers :
    AssignThenUnassign(g, h) => UnassignRemovedAssignedCard(g, h)

\* C8 amended: the same, provided the column held no card for the issue when
\* the label-added event arrived.
C8_AssignThenUnassignLeavesNoCard ==
  \A g, h \in Handlers :
    ( /\ AssignThenUnassign(g, h)
      /\ CardsOf(cardsBefore[g], column[g][1].id, ctx[g][1].payload.issue.id) = {} )
    => UnassignRemovedAssignedCard(g, h)

C8_Witness ==
  \E g, h \in Handlers :
    /\ AssignThenUnassign(g, h)
    /\ CardsOf(cardsBefore[g], column[g][1].id, ctx[g][1].payload.issue.id) = {}
    /\ cardsBefore[h] = cardsBefore[g] \cup { CardCreatedBy(g) }
    /\ "Deleted card" \in LogSet(h)

\* C9: when the card lookup of a label-removed handler returns and the column
\* holds no card for the issue, the handler issues no delete-card call, logs
\* no error, leaves the cards unchanged and goes on to its notification.
C9_UnassignWithoutCardIsNoOp ==
  [][ \A h \in Handlers :
        ( /\ pc[h] = "getProjectCardForIssue"
          /\ pc'[h] # pc[h]
          /\ failed'[h] = failed[h]
          /\ CardsOf(cards, column[h][1].id, ctx[h][1].payload.issue.id) = {} )
        => /\ cards' = cards
           /\ calls'[h] = calls[h]
           /\ logs'[h] = logs[h]
           /\ ghcard'[h] = << >>
           /\ pc'[h] = "done" ]_vars

C9_Witness ==
  \E h \in Handlers :
    /\ pc[h] = "done"
    /\ ~Labeled(h)
    /\ "getProjectCards" \in Ops(h)
    /\ failed[h] = {}
    /\ "deleteProjectCard" \notin Ops(h)
    /\ cards = cardsBefore[h]
    /\ CardsOf(cards, column[h][1].id, ctx[h][1].payload.issue.id) = {}
    /\ cards # {}

\* C10: the message sent is the "Assigned issue to" variant for a label-added
\* event whatever the issue's labels, and for a label-removed event the
\* "approved as an official bounty" variant iff the issue's labels in the
\* payload contain the configured bounty label, else "Unassigned issue from".
ExpectedKind(h) ==
  IF ctx[h][1].name = "issues.labeled" THEN "Assigned issue to"
  ELSE IF Pbc(h).bounty \in ctx[h][1].payload.issue.labels
       THEN "has been approved as an official bounty!"
       ELSE "Unassigned issue from"

C10_MessageVariant ==
  \A h \in Handlers :
    \A i \in 1..Len(sent[h]) :
      /\ sent[h][i].message.kind = ExpectedKind(h)
      /\ sent[h][i].message.url = ctx[h][1].payload.issue.html_url

C10_Witness ==
  \E g, h \in Handlers :
    /\ Len(sent[g]) = 1 /\ ~Labeled(g)
    /\ sent[g][1].message.kind = "has been approved as an official bounty!"
    /\ Len(sent[h]) = 1 /\ ~Labeled(h)
    /\ sent[h][1].message.kind = "Unassigned issue from"

\* handler h has gone through the notification step (lines 148-163): it
\* resolved its column and returned
Notified(h) == pc[h] = "done" /\ column[h] # << >>

ApprovedKind == "has been approved as an official bounty!"

\* C11 as stated: with DRY_RUN_BOUNTY_APPROVAL set, the "Assigned issue to"
\* and "Unassigned issue from" messages are still sent and only the
\* "approved as an official bounty" message is withheld.
C11_AsStated ==
  env.DRY_RUN_BOUNTY_APPROVAL =>
    \A h \in Handlers :
      Notified(h) =>
        IF ExpectedKind(h) = ApprovedKind
        THEN sent[h] = << >>
        ELSE Len(sent[h]) = 1 /\ sent[h][1].message.kind = ExpectedKind(h)

\* C11 amended: with DRY_RUN_BOUNTY_APPROVAL set no message of any variant is
\* sent; with it unset every handler that reaches the notification step sends
\* its message, whatever the variant.
C11_FlagSuppressesEveryMessage ==
  \A h \in Handlers :
    /\ env.DRY_RUN_BOUNTY_APPROVAL => sent[h] = << >>
    /\ (~env.DRY_RUN_BOUNTY_APPROVAL /\ Notified(h)) => Len(sent[h]) = 1

C11_Witness ==
  /\ env.DRY_RUN_BOUNTY_APPROVAL
  /\ \E g, h \in Handlers :
       /\ Notified(g) /\ ExpectedKind(g) = "Assigned issue to"
       /\ Notified(h) /\ ExpectedKind(h) = "Unassigned issue from"

\* after a rejected call handler h has returned, that call was its last
\* remote call, and it was issued once
StoppedAtFailure(h) ==
  /\ pc[h] = "done"
  /\ calls[h][Len(calls[h])].op \in failed[h]
  /\ \A op \in failed[h] : OpCount(h, op) = 1

\* C12 as stated: after any rejected remote call (board fetch, column fetch,
\* create card, list cards, delete card) the handler makes no further remote
\* call, sends no notification and does not repeat the call.
C12_AsStated ==
  \A h \in Handlers :
    failed[h] # {} => StoppedAtFailure(h) /\ sent[h] = << >>

\* C12 amended: a rejected call is never repeated and is the handler's last
\* remote call; after a rejected board or column fetch no notification is
\* sent; after a rejected create-card, list-cards or delete-card call the
\* handler still goes through the notification step (its message is sent
\* unless DRY_RUN_BOUNTY_APPROVAL is set).
C12_FailureEndsRemoteCalls ==
  \A h \in Handlers :
    failed[h] # {} =>
      /\ StoppedAtFailure(h)
      /\ failed[h] \cap {"getConfig", "getOrgProjects", "getProjectColumns"} # {}
           => sent[h] = << >>
      /\ failed[h] \cap CardOps # {}
           => Len(sent[h]) = (IF env.DRY_RUN_BOUNTY_APPROVAL THEN 0 ELSE 1)

C12_Witness ==
  \E g, h \in Handlers :
    /\ failed[g] = {"deleteProjectCard"} /\ Len(sent[g]) = 1
    /\ failed[h] = {"getProjectColumns"} /\ sent[h] = << >>

\* at most one card per (column, issue) pair
AtMostOneCardPerIssue ==
  \A c, d \in cards :
    (c.column_id = d.column_id /\ c.content_id = d.content_id) => c = d

\* every event delivered so far takes effect on the board: it is not
\* bot-originated, its configuration has the board section and none of its
\* remote calls was rejected
Effective(h) ==
  /\ ~ctx[h][1].isBot
  /\ failed[h] = {}
  /\ pc[h] # "getConfig" => HasBoardSection(h)

AllEffective == \A h \in Handlers : ctx[h] # << >> => Effective(h)

IndicesNamed(list, name) == { i \in 1..Len(list) : list[i].name = name }

\* the entry is the one at the lowest position among those carrying the name
IsFirstNamed(entry, list, name) ==
  \E i \in IndicesNamed(list, name) :
    /\ entry = list[i]
    /\ \A j \in IndicesNamed(list, name) : i <= j

CallIds(h, ops) == { calls[h][i].id : i \in { k \in 1..Len(calls[h]) : calls[h][k].op \in ops } }

\* C14: when several open boards carry the configured board name, or several
\* columns of the board carry the configured column name, the first one in
\* list order is used, and the calls that follow use that entry's id.
C14_FirstMatchUsed ==
  \A h \in Handlers :
    /\ project[h] # << >> =>
         /\ IsFirstNamed(project[h][1], world.boards, Pbc(h).name)
         /\ CallIds(h, {"getProjectColumns"}) = { project[h][1].id }
    /\ column[h] # << >> =>
         /\ IsFirstNamed(column[h][1], world.columns[project[h][1].id], Pbc(h).column)
         /\ CallIds(h, {"createProjectCard", "getProjectCards"}) \subseteq { column[h][1].id }
    /\ ghcard[h] # << >> => ghcard[h][1].column_id = column[h][1].id

C14_Witness ==
  \E h \in Handlers :
    /\ column[h] # << >>
    /\ Cardinality(IndicesNamed(world.boards, Pbc(h).name)) > 1
    /\ Cardinality(IndicesNamed(world.columns[project[h][1].id], Pbc(h).column)) > 1
    /\ "Created card" \in LogSet(h)
    /\ CallIds(h, {"createProjectCard"}) = { column[h][1].id }

CreateFailed(h) == "createProjectCard" \in failed[h]

CreateFailureHandled(h) ==
  /\ pc[h] = "done"
  /\ Labeled(h) /\ column[h] # << >> /\ ~env.DRY_RUN
  /\ "error: Couldn't create project card for the issue" \in LogSet(h)
  /\ OpCount(h, "createProjectCard") = 1
  /\ "Created card" \notin LogSet(h)
  /\ CardCreatedBy(h) \notin cards

AssignedSent(h) ==
  /\ Len(sent[h]) = 1
  /\ sent[h][1].message.kind = "Assigned issue to"
  /\ sent[h][1].message.url = ctx[h][1].payload.issue.html_url
  /\ sent[h][1].room = config[h][1].room

\* C15 as stated: when the create-card call of a label-added event fails
\* (column resolved, DRY_RUN unset), the error is logged, the call is not
\* retried and the "Assigned issue to" message is sent.
C15_AsStated ==
  \A h \in Handlers : CreateFailed(h) => CreateFailureHandled(h) /\ AssignedSent(h)

\* C15 amended: the same, except that the message is sent only when
\* DRY_RUN_BOUNTY_APPROVAL is unset; when it is set nothing is sent.
C15_CreateFailureStillNotifies ==
  \A h \in Handlers :
    CreateFailed(h) =>
      /\ CreateFailureHandled(h)
      /\ IF env.DRY_RUN_BOUNTY_APPROVAL THEN sent[h] = << >> ELSE AssignedSent(h)

C15_Witness ==
  \E h \in Handlers :
    CreateFailed(h) /\ AssignedSent(h) /\ CardsOf(cards, column[h][1].id, 1) = {}

Overlapping == \E h \in Handlers : overlapped[h]

\* C16: when handlers of label-added and label-removed events on one issue
\* interleave at their remote calls, a state with more than one card for the
\* issue in the column is reachable (C16_Witness); among events that all take
\* effect, such a state arises only when a handler was dispatched while
\* another one was still suspended.
C16_DuplicateCardNeedsOverlap ==
  (AllEffective /\ ~AtMostOneCardPerIssue) => Overlapping

C16_Witness ==
  \E h \in Handlers :
    /\ AllEffective /\ Overlapping /\ Quiescent
    /\ column[h] # << >>
    /\ Cardinality(CardsOf(cards, column[h][1].id, ctx[h][1].payload.issue.id)) > 1

\* C17: the chat-client handle is written only by the connection callback
\* and by no handler step; a handler that reaches the send step before the
\* connection passes the null handle; a message once handed over is neither
\* buffered nor sent again when the connection is established.
C17_ClientWrittenOnlyByCallback ==
  [][ /\ slackClient' # slackClient =>
           /\ slackClient = << >> /\ slackClient' = << "slack" >>
           /\ pc' = pc /\ calls' = calls /\ logs' = logs /\ sent' = sent
      /\ \A h \in Handlers :
           sent'[h] # sent[h] =>
             /\ sent[h] = << >> /\ Len(sent'[h]) = 1
             /\ sent'[h][1].client = slackClient
             /\ pc[h] # "done" /\ pc'[h] = "done"
    ]_vars

C17_Witness ==
  \E h \in Handlers :
    /\ Len(sent[h]) = 1 /\ sent[h][1].client = << >>
    /\ pc[h] = "done"
    /\ slackClient = << "slack" >>

\* C18: a label-removed handler issues at most one delete-card call, and only
\* for a card of the resolved column that references the event's issue; every
\* card that leaves the board is such a card, so cards of other issues stay;
\* a label-removed handler never issues create-card and a label-added handler
\* never issues list-cards or delete-card.
C18_UnassignDeletesOnlyItsCard ==
  /\ [](\A h \in Handlers :
          ctx[h] # << >> =>
            IF Labeled(h)
            THEN Ops(h) \cap {"getProjectCards", "deleteProjectCard"} = {}
            ELSE /\ "createProjectCard" \notin Ops(h)
                 /\ OpCount(h, "deleteProjectCard") <= 1
                 /\ "deleteProjectCard" \in Ops(h) =>
                      /\ OpCount(h, "getProjectCards") = 1
                      /\ ghcard[h] # << >>
                      /\ ghcard[h][1].content_id = ctx[h][1].payload.issue.id
                      /\ ghcard[h][1].column_id = column[h][1].id
                      /\ CallIds(h, {"deleteProjectCard"}) = { ghcard[h][1].id })
  /\ [][ \A c \in cards \ cards' :
           \E h \in Handlers :
             /\ ~Labeled(h) /\ pc[h] = "deleteProjectCard" /\ pc'[h] = "done"
             /\ ghcard[h] = << c >>
             /\ c.content_id = ctx[h][1].payload.issue.id
             /\ cards' = cards \ { c }
       ]_vars

C18_Witness ==
  \E g, h \in Handlers :
    /\ pc[h] = "done" /\ pc[g] = "done"
    /\ ~Labeled(h) /\ "Deleted card" \in LogSet(h)
    /\ CardsOf(cards, column[h][1].id, ctx[h][1].payload.issue.id) = {}
    /\ \E c \in cards : c.content_id # ctx[h][1].payload.issue.id
    /\ Labeled(g) /\ "Created card" \in LogSet(g)

\* an event the handler acts on: not bot-originated, configuration with the
\* board section loaded, label equal to the watched label
Matching(h) ==
  /\ ctx[h] # << >> /\ ~ctx[h][1].isBot
  /\ HasBoardSection(h)
  /\ ctx[h][1].payload.label.name = Pbc(h).watched

OnlyDryRun == env.DRY_RUN /\ ~env.DRY_RUN_BOUNTY_APPROVAL

\* C19: with DRY_RUN set and DRY_RUN_BOUNTY_APPROVAL unset, an event with a
\* matching label still issues the list-boards call and, for the board found,
\* the list-columns call; once the column is resolved it sends exactly one
\* notification (assigned, unassigned or approved) while no card call is
\* issued and no card is created or deleted.
C19_DryRunStillFetchesAndNotifies ==
  \A h \in Handlers :
    (OnlyDryRun /\ Matching(h)) =>
      /\ OpCount(h, "getOrgProjects") = 1
      /\ project[h] # << >> => OpCount(h, "getProjectColumns") = 1
      /\ Ops(h) \cap CardOps = {}
      /\ LogSet(h) \cap {"Created card", "Deleted card"} = {}
      /\ IF column[h] # << >>
         THEN /\ pc[h] = "done"
              /\ Len(sent[h]) = 1
              /\ sent[h][1].message.kind = ExpectedKind(h)
              /\ sent[h][1].room = config[h][1].room
              /\ cards = cardsBefore[h]
         ELSE sent[h] = << >>

C19_Witness ==
  \E g, h \in Handlers :
    /\ OnlyDryRun /\ Matching(g) /\ Matching(h)
    /\ column[g] # << >> /\ column[h] # << >>
    /\ Len(sent[g]) = 1 /\ sent[g][1].message.kind = "Assigned issue to"
    /\ Len(sent[h]) = 1 /\ sent[h][1].message.kind = "has been approved as an official bounty!"
    /\ cards # {} /\ cards = cardsBefore[h]

Dispatched == { h \in Handlers : ctx[h] # << >> }

LastDispatched == CHOOSE h \in Dispatched : \A k \in Dispatched : k <= h

\* every event delivered has been handled to its end, took effect on the
\* board (no bot event, no remote failure, column resolved) and DRY_RUN is off
AllCompleted ==
  /\ Dispatched # {} /\ Quiescent
  /\ AllEffective /\ ~env.DRY_RUN
  /\ \A h \in Dispatched : column[h] # << >>

\* a card for the issue of the last event exists in the column iff that
\* event was label-added
BoardAgreesWithLabel ==
  LET h == LastDispatched
  IN CardsOf(cards, column[h][1].id, ctx[h][1].payload.issue.id) # {} <=> Labeled(h)

\* C20 as stated: under concurrent dispatch of alternating watched-label
\* events on one issue, once all handlers have completed with no remote
\* failure and no dry-run, a card for the issue exists in the column iff the
\* last event was label-added.
C20_AsStated == AllCompleted => BoardAgreesWithLabel

\* C20 amended: the agreement holds when no handler was dispatched while
\* another one was still suspended at a remote call.
C20_AgreementWithoutOverlap == (AllCompleted /\ ~Overlapping) => BoardAgreesWithLabel

C20_Witness ==
  /\ AllCompleted /\ ~Overlapping
  /\ Dispatched = 1..3
  /\ "Deleted card" \in LogSet(2)
  /\ CardCreatedBy(3) \in cards

====
